---- MODULE Spec2Model ----
(***************************************************************************)
(* Model of tree_sitter::rules::CharacterSet                                *)
(* (src/compiler/rules/character_set.cc).                                   *)
(*                                                                          *)
(* A CharacterSet is the record                                             *)
(*   [includes_all, included_chars, excluded_chars]                        *)
(* of the class's three fields.  Code points are uint32_t in the source;    *)
(* the model keeps the unsigned wrap-around arithmetic with a narrower     *)
(* word of CharBits bits.                                                   *)
(*                                                                          *)
(* Four specifications share the definitions of the operations:            *)
(*   Spec        two objects driven through the public operations, each    *)
(*               call taken as a whole, with the last call recorded;       *)
(*   SpecLoop    one object whose include/exclude calls are taken one      *)
(*               loop iteration of add_range/remove_range at a time;       *)
(*   SpecRanges  consolidate_ranges applied to point sets;                  *)
(*   SpecOrder   operator< and operator== applied to three objects.        *)
(***************************************************************************)
EXTENDS Integers, Sequences, FiniteSets

VARIABLES sets, plain, last, obj, call, chars, ranges, ord, cmp

vars == <<sets, plain, last, obj, call, chars, ranges, ord, cmp>>

(***************************************************************************)
(* Bounds.                                                                  *)
(***************************************************************************)
\* Width in bits of the model's code-point word (uint32_t in the source).
CharBits == 4

\* Arguments of include/exclude calls are drawn from 0..MaxArg (in SpecLoop
\* also UintMax - 1 and UintMax).
MaxArg == 2

\* Point sets handed to consolidate_ranges are subsets of 0..RangeMax.
RangeMax == 10

RECURSIVE Pow2(_)
Pow2(n) == IF n = 0 THEN 1 ELSE 2 * Pow2(n - 1)

UintModulus == Pow2(CharBits)

UintMax == UintModulus - 1

CodePoints == 0 .. UintMax

Args == 0 .. MaxArg

Ids == {1, 2}

Min(S) == CHOOSE x \in S : \A y \in S : x <= y

\* uint32_t subtraction c - k.
UintSub(c, k) == (c - k + UintModulus) % UintModulus

\* uint32_t increment c++.
UintInc(c) == (c + 1) % UintModulus

(***************************************************************************)
(* The static helpers.                                                      *)
(***************************************************************************)
RECURSIVE add_range_loop(_, _, _)
add_range_loop(characters, c, max) ==
    IF c <= max
    THEN add_range_loop(characters \cup {c}, UintInc(c), max)
    ELSE characters

\* add_range with the loop test c < max: the last point is left out.
add_range_short(characters, min, max) ==
    characters \cup {c \in CodePoints : min <= c /\ c < max}

add_range(characters, min, max) ==
    add_range_loop(characters, min, max)

RECURSIVE remove_range_loop(_, _, _)
remove_range_loop(characters, c, max) ==
    IF c <= max
    THEN remove_range_loop(characters \ {c}, UintInc(c), max)
    ELSE characters

remove_range(characters, min, max) ==
    remove_range_loop(characters, min, max)

\* remove_chars and add_chars change *left and return a set: the model
\* returns both as [left, result].
RECURSIVE remove_chars_loop(_, _, _)
remove_chars_loop(left, result, right) ==
    IF right = {}
    THEN [left |-> left, result |-> result]
    ELSE LET c == Min(right)
         IN  IF c \in left
             THEN remove_chars_loop(left \ {c}, result \cup {c}, right \ {c})
             ELSE remove_chars_loop(left, result, right \ {c})

\* remove_chars that collects the common points and erases nothing.
remove_chars_keep(left, right) ==
    [left |-> left, result |-> left \cap right]

remove_chars(left, right) ==
    remove_chars_loop(left, {}, right)

RECURSIVE add_chars_loop(_, _, _)
add_chars_loop(left, result, right) ==
    IF right = {}
    THEN [left |-> left, result |-> result]
    ELSE LET c == Min(right)
         IN  IF c \notin left
             THEN add_chars_loop(left \cup {c}, result \cup {c}, right \ {c})
             ELSE add_chars_loop(left, result, right \ {c})

\* add_chars that returns every point of right, not only the new ones.
add_chars_all(left, right) ==
    [left |-> left \cup right, result |-> right]

add_chars(left, right) ==
    add_chars_loop(left, {}, right)

\* consolidate_ranges that extends the last range by any contiguous point:
\* a run of two points becomes one range.
consolidate_step_merge_pairs(result, c) ==
    LET size == Len(result)
    IN  IF size >= 1 /\ result[size].max = UintSub(c, 1)
        THEN [result EXCEPT ![size].max = c]
        ELSE Append(result, [min |-> c, max |-> c])

\* consolidate_ranges whose first branch pops the last range and forgets
\* to extend the one before it.
consolidate_step_drop(result, c) ==
    LET size == Len(result)
    IN  IF size >= 2 /\ result[size - 1].max = UintSub(c, 2)
        THEN SubSeq(result, 1, size - 1)
        ELSE IF size >= 1
             THEN IF result[size].min < result[size].max
                      /\ result[size].max = UintSub(c, 1)
                  THEN [result EXCEPT ![size].max = c]
                  ELSE Append(result, [min |-> c, max |-> c])
             ELSE Append(result, [min |-> c, max |-> c])

\* One iteration of the loop of consolidate_ranges; result[size - 2] of the
\* zero-based vector is result[size - 1] of the one-based sequence.
consolidate_step(result, c) ==
    LET size == Len(result)
    IN  IF size >= 2 /\ result[size - 1].max = UintSub(c, 2)
        THEN [SubSeq(result, 1, size - 1) EXCEPT ![size - 1].max = c]
        ELSE IF size >= 1
             THEN IF result[size].min < result[size].max
                      /\ result[size].max = UintSub(c, 1)
                  THEN [result EXCEPT ![size].max = c]
                  ELSE Append(result, [min |-> c, max |-> c])
             ELSE Append(result, [min |-> c, max |-> c])

RECURSIVE consolidate_loop(_, _)
consolidate_loop(result, rest) ==
    IF rest = {}
    THEN result
    ELSE consolidate_loop(consolidate_step(result, Min(rest)),
                          rest \ {Min(rest)})

consolidate_ranges(cs) ==
    consolidate_loop(<<>>, cs)

(***************************************************************************)
(* The class.                                                               *)
(***************************************************************************)
CharacterSet ==
    [includes_all |-> FALSE, included_chars |-> {}, excluded_chars |-> {}]

operator_eq(self, other) ==
    /\ self.includes_all = other.includes_all
    /\ self.included_chars = other.included_chars
    /\ self.excluded_chars = other.excluded_chars

\* std::set<uint32_t>::operator<: lexicographic over the ascending elements.
RECURSIVE set_less(_, _)
set_less(l, r) ==
    IF r = {} THEN FALSE
    ELSE IF l = {} THEN TRUE
    ELSE IF Min(l) < Min(r) THEN TRUE
    ELSE IF Min(r) < Min(l) THEN FALSE
    ELSE set_less(l \ {Min(l)}, r \ {Min(r)})

\* operator< that never looks at excluded_chars.
operator_lt_no_excluded(self, other) ==
    IF ~self.includes_all /\ other.includes_all THEN TRUE
    ELSE IF self.includes_all /\ ~other.includes_all THEN FALSE
    ELSE set_less(self.included_chars, other.included_chars)

operator_lt(self, other) ==
    IF ~self.includes_all /\ other.includes_all THEN TRUE
    ELSE IF self.includes_all /\ ~other.includes_all THEN FALSE
    ELSE IF set_less(self.included_chars, other.included_chars) THEN TRUE
    ELSE IF set_less(other.included_chars, self.included_chars) THEN FALSE
    ELSE set_less(self.excluded_chars, other.excluded_chars)

\* include_all that does not clear included_chars.
include_all_keeps_included(self) ==
    [self EXCEPT !.includes_all = TRUE, !.excluded_chars = {0}]

include_all(self) ==
    [includes_all |-> TRUE, included_chars |-> {}, excluded_chars |-> {0}]

include(self, min, max) ==
    IF self.includes_all
    THEN [self EXCEPT !.excluded_chars = remove_range(@, min, max)]
    ELSE [self EXCEPT !.included_chars = add_range(@, min, max)]

exclude(self, min, max) ==
    IF self.includes_all
    THEN [self EXCEPT !.excluded_chars = add_range(@, min, max)]
    ELSE [self EXCEPT !.included_chars = remove_range(@, min, max)]

\* is_empty that does not look at includes_all.
is_empty_direct_only(self) ==
    self.included_chars = {}

is_empty(self) ==
    ~self.includes_all /\ self.included_chars = {}

\* add_set that, uniting a direct set with a complement set, takes over all
\* of the argument's exclusions without testing included_chars.count(c).
add_set_no_count(self, other) ==
    IF self.includes_all
    THEN IF other.includes_all
         THEN [self EXCEPT !.excluded_chars =
                  remove_chars(self.excluded_chars, other.excluded_chars).result]
         ELSE [self EXCEPT !.excluded_chars =
                  remove_chars(self.excluded_chars, other.included_chars).left]
    ELSE IF other.includes_all
         THEN [includes_all |-> TRUE,
               included_chars |-> {},
               excluded_chars |-> self.excluded_chars \cup other.excluded_chars]
         ELSE [self EXCEPT !.included_chars = @ \cup other.included_chars]

add_set(self, other) ==
    IF self.includes_all
    THEN IF other.includes_all
         THEN [self EXCEPT !.excluded_chars =
                  remove_chars(self.excluded_chars, other.excluded_chars).result]
         ELSE [self EXCEPT !.excluded_chars =
                  remove_chars(self.excluded_chars, other.included_chars).left]
    ELSE IF other.includes_all
         THEN [includes_all |-> TRUE,
               included_chars |-> {},
               excluded_chars |-> self.excluded_chars \cup
                   {c \in other.excluded_chars : c \notin self.included_chars}]
         ELSE [self EXCEPT !.included_chars = @ \cup other.included_chars]

\* remove_set changes *this and returns a set: the model returns both as
\* [self, result].
remove_set(self, other) ==
    IF self.includes_all
    THEN IF other.includes_all
         THEN LET r == add_chars(self.excluded_chars, other.excluded_chars)
              IN  [self   |-> [includes_all |-> FALSE,
                               included_chars |-> r.result,
                               excluded_chars |-> {}],
                   result |-> [includes_all |-> TRUE,
                               included_chars |-> {},
                               excluded_chars |-> r.left]]
         ELSE LET r == add_chars(self.excluded_chars, other.included_chars)
              IN  [self   |-> [self EXCEPT !.excluded_chars = r.left],
                   result |-> [CharacterSet EXCEPT !.included_chars = r.result]]
    ELSE IF other.includes_all
         THEN LET r == remove_chars(self.included_chars, other.excluded_chars)
              IN  [self   |-> [self EXCEPT !.included_chars = r.result],
                   result |-> [CharacterSet EXCEPT !.included_chars = r.left]]
         ELSE LET r == remove_chars(self.included_chars, other.included_chars)
              IN  [self   |-> [self EXCEPT !.included_chars = r.left],
                   result |-> [CharacterSet EXCEPT !.included_chars = r.result]]

intersects(self, other) ==
    ~is_empty(remove_set(self, other).result)

included_ranges(self) ==
    consolidate_ranges(self.included_chars)

excluded_ranges(self) ==
    consolidate_ranges(self.excluded_chars)

(***************************************************************************)
(* Spec: two objects, every public operation taken as one step.  `last`    *)
(* records the last call: the operation, the object it was called on, its  *)
(* arguments, the object's value before the call (self), the value of the  *)
(* argument set (other), the returned set (ret) and the returned bool      *)
(* (flag).  plain[t] holds while object t has seen only include and        *)
(* exclude calls since its construction.                                    *)
(* The arguments of include and exclude lie in 0..MaxArg, below UintMax:  *)
(* a call with max = UintMax does not return (SpecLoop), so it has no     *)
(* state after the call.                                                    *)
(***************************************************************************)
Call(op, t, min, max, self, other, ret, flag) ==
    [op |-> op, target |-> t, min |-> min, max |-> max,
     self |-> self, other |-> other, ret |-> ret, flag |-> flag]

NoCall == Call("new", 1, 0, 0, CharacterSet, CharacterSet, CharacterSet, FALSE)

NoFrame == [pc |-> "idle", field |-> "included_chars",
            c |-> 0, min |-> 0, max |-> 0, iters |-> 0]

NoRanges == [done |-> FALSE, out |-> <<>>]

NoCmp == [done |-> FALSE,
          lt |-> [i \in 1 .. 3 |-> [j \in 1 .. 3 |-> FALSE]],
          eq |-> [i \in 1 .. 3 |-> [j \in 1 .. 3 |-> FALSE]]]

\* The variables of the other specifications, left at their initial values.
AlgebraIdle ==
    /\ sets = [t \in Ids |-> CharacterSet]
    /\ plain = [t \in Ids |-> TRUE]
    /\ last = NoCall

LoopIdle ==
    /\ obj = CharacterSet
    /\ call = NoFrame

RangesIdle ==
    /\ chars = {}
    /\ ranges = NoRanges

OrderIdle ==
    /\ ord = [i \in 1 .. 3 |-> CharacterSet]
    /\ cmp = NoCmp

Init ==
    /\ AlgebraIdle
    /\ LoopIdle
    /\ RangesIdle
    /\ OrderIdle

Include(t, min, max) ==
    /\ min <= max
    /\ sets' = [sets EXCEPT ![t] = include(sets[t], min, max)]
    /\ last' = Call("include", t, min, max, sets[t],
                    CharacterSet, CharacterSet, FALSE)
    /\ UNCHANGED <<plain, obj, call, chars, ranges, ord, cmp>>

Exclude(t, min, max) ==
    /\ min <= max
    /\ sets' = [sets EXCEPT ![t] = exclude(sets[t], min, max)]
    /\ last' = Call("exclude", t, min, max, sets[t],
                    CharacterSet, CharacterSet, FALSE)
    /\ UNCHANGED <<plain, obj, call, chars, ranges, ord, cmp>>

IncludeAll(t) ==
    /\ sets' = [sets EXCEPT ![t] = include_all(sets[t])]
    /\ plain' = [plain EXCEPT ![t] = FALSE]
    /\ last' = Call("include_all", t, 0, 0, sets[t],
                    CharacterSet, CharacterSet, FALSE)
    /\ UNCHANGED <<obj, call, chars, ranges, ord, cmp>>

\* sets[t].add_set(sets[o]); with o = t the argument is a copy of the object.
AddSet(t, o) ==
    /\ sets' = [sets EXCEPT ![t] = add_set(sets[t], sets[o])]
    /\ plain' = [plain EXCEPT ![t] = FALSE]
    /\ last' = Call("add_set", t, 0, 0, sets[t], sets[o], CharacterSet, FALSE)
    /\ UNCHANGED <<obj, call, chars, ranges, ord, cmp>>

\* sets[t].remove_set(sets[o]); with o = t the argument is a copy.
RemoveSet(t, o) ==
    /\ sets' = [sets EXCEPT ![t] = remove_set(sets[t], sets[o]).self]
    /\ plain' = [plain EXCEPT ![t] = FALSE]
    /\ last' = Call("remove_set", t, 0, 0, sets[t], sets[o],
                    remove_set(sets[t], sets[o]).result, FALSE)
    /\ UNCHANGED <<obj, call, chars, ranges, ord, cmp>>

Intersects(t, o) ==
    /\ last' = Call("intersects", t, 0, 0, sets[t], sets[o], CharacterSet,
                    intersects(sets[t], sets[o]))
    /\ UNCHANGED <<sets, plain, obj, call, chars, ranges, ord, cmp>>

\* A new CharacterSet on which include(r.min, r.max) is called for every
\* range r of rs, in order.
RECURSIVE include_each(_, _)
include_each(self, rs) ==
    IF rs = <<>>
    THEN self
    ELSE include_each(include(self, Head(rs).min, Head(rs).max), Tail(rs))

\* included_ranges() of an object built with include and exclude only,
\* re-included into a new set (returned in last.ret).
RoundTrip(t) ==
    /\ plain[t]
    /\ last' = Call("round_trip", t, 0, 0, sets[t], CharacterSet,
                    include_each(CharacterSet, included_ranges(sets[t])), FALSE)
    /\ UNCHANGED <<sets, plain, obj, call, chars, ranges, ord, cmp>>

Next ==
    \/ \E t \in Ids, min \in Args, max \in Args : Include(t, min, max)
    \/ \E t \in Ids, min \in Args, max \in Args : Exclude(t, min, max)
    \/ \E t \in Ids : IncludeAll(t)
    \/ \E t \in Ids, o \in Ids : AddSet(t, o)
    \/ \E t \in Ids, o \in Ids : RemoveSet(t, o)
    \/ \E t \in Ids, o \in Ids : Intersects(t, o)
    \/ \E t \in Ids : RoundTrip(t)

Spec == Init /\ [][Next]_vars

(***************************************************************************)
(* SpecLoop: one object; include and exclude are taken one iteration of    *)
(* the for loop of add_range / remove_range at a time.  The frame `call`   *)
(* holds the running helper (pc), the field it was handed, the loop        *)
(* counter c, the bounds, and the number of loop bodies run so far.  The   *)
(* count stops at IterCap, above the width of every range.                 *)
(***************************************************************************)
IterCap == UintModulus + 1

LoopArgs == Args \cup {UintMax - 1, UintMax}

Frame(pc, fld, min, max) ==
    [pc |-> pc, field |-> fld, c |-> min, min |-> min, max |-> max, iters |-> 0]

\* include(min, max): the call of remove_range or add_range with c = min.
CallInclude(min, max) ==
    /\ call.pc = "idle"
    /\ min <= max
    /\ call' = IF obj.includes_all
               THEN Frame("remove_range", "excluded_chars", min, max)
               ELSE Frame("add_range", "included_chars", min, max)
    /\ UNCHANGED <<obj, sets, plain, last, chars, ranges, ord, cmp>>

\* exclude(min, max): the call of add_range or remove_range with c = min.
CallExclude(min, max) ==
    /\ call.pc = "idle"
    /\ min <= max
    /\ call' = IF obj.includes_all
               THEN Frame("add_range", "excluded_chars", min, max)
               ELSE Frame("remove_range", "included_chars", min, max)
    /\ UNCHANGED <<obj, sets, plain, last, chars, ranges, ord, cmp>>

Advance(fr) ==
    [fr EXCEPT !.c = UintInc(@),
               !.iters = IF @ < IterCap THEN @ + 1 ELSE @]

\* for (uint32_t c = min; c <= max; c++) characters->insert(c);
AddRangeStep ==
    /\ call.pc = "add_range"
    /\ IF call.c <= call.max
       THEN /\ obj' = [obj EXCEPT ![call.field] = @ \cup {call.c}]
            /\ call' = Advance(call)
       ELSE /\ obj' = obj
            /\ call' = [call EXCEPT !.pc = "idle"]
    /\ UNCHANGED <<sets, plain, last, chars, ranges, ord, cmp>>

\* for (uint32_t c = min; c <= max; c++) characters->erase(c);
RemoveRangeStep ==
    /\ call.pc = "remove_range"
    /\ IF call.c <= call.max
       THEN /\ obj' = [obj EXCEPT ![call.field] = @ \ {call.c}]
            /\ call' = Advance(call)
       ELSE /\ obj' = obj
            /\ call' = [call EXCEPT !.pc = "idle"]
    /\ UNCHANGED <<sets, plain, last, chars, ranges, ord, cmp>>

LoopIncludeAll ==
    /\ call.pc = "idle"
    /\ obj' = include_all(obj)
    /\ UNCHANGED <<call, sets, plain, last, chars, ranges, ord, cmp>>

NextLoop ==
    \/ \E min \in LoopArgs, max \in LoopArgs : CallInclude(min, max)
    \/ \E min \in LoopArgs, max \in LoopArgs : CallExclude(min, max)
    \/ AddRangeStep
    \/ RemoveRangeStep
    \/ LoopIncludeAll

SpecLoop == Init /\ [][NextLoop]_vars

(***************************************************************************)
(* SpecRanges: consolidate_ranges applied to a point set.                   *)
(***************************************************************************)
InitRanges ==
    /\ chars \in SUBSET (0 .. RangeMax)
    /\ ranges = NoRanges
    /\ AlgebraIdle
    /\ LoopIdle
    /\ OrderIdle

Consolidate ==
    /\ ~ranges.done
    /\ ranges' = [done |-> TRUE, out |-> consolidate_ranges(chars)]
    /\ UNCHANGED <<chars, sets, plain, last, obj, call, ord, cmp>>

NextRanges == Consolidate

SpecRanges == InitRanges /\ [][NextRanges]_vars

(***************************************************************************)
(* SpecOrder: three objects built with include, exclude and include_all,   *)
(* and compared pairwise with operator< and operator==.                    *)
(***************************************************************************)
OrdInclude(i, min, max) ==
    /\ min <= max
    /\ ord' = [ord EXCEPT ![i] = include(ord[i], min, max)]
    /\ cmp' = NoCmp
    /\ UNCHANGED <<sets, plain, last, obj, call, chars, ranges>>

OrdExclude(i, min, max) ==
    /\ min <= max
    /\ ord' = [ord EXCEPT ![i] = exclude(ord[i], min, max)]
    /\ cmp' = NoCmp
    /\ UNCHANGED <<sets, plain, last, obj, call, chars, ranges>>

OrdIncludeAll(i) ==
    /\ ord' = [ord EXCEPT ![i] = include_all(ord[i])]
    /\ cmp' = NoCmp
    /\ UNCHANGED <<sets, plain, last, obj, call, chars, ranges>>

Compare ==
    /\ ~cmp.done
    /\ cmp' = [done |-> TRUE,
               lt |-> [i \in 1 .. 3 |->
                          [j \in 1 .. 3 |-> operator_lt(ord[i], ord[j])]],
               eq |-> [i \in 1 .. 3 |->
                          [j \in 1 .. 3 |-> operator_eq(ord[i], ord[j])]]]
    /\ UNCHANGED <<ord, sets, plain, last, obj, call, chars, ranges>>

NextOrder ==
    \/ \E i \in 1 .. 3, min \in Args, max \in Args : OrdInclude(i, min, max)
    \/ \E i \in 1 .. 3, min \in Args, max \in Args : OrdExclude(i, min, max)
    \/ \E i \in 1 .. 3 : OrdIncludeAll(i)
    \/ Compare

SpecOrder == Init /\ [][NextOrder]_vars

(***************************************************************************)
(* Properties.                                                              *)
(***************************************************************************)
\* Membership of code point p, read through includes_all and the live set.
member(s, p) ==
    IF s.includes_all THEN p \notin s.excluded_chars ELSE p \in s.included_chars

SameMembers(s, t) ==
    \A p \in CodePoints : member(s, p) <=> member(t, p)

\* The field includes_all does not select is empty.
RepOK(s) ==
    /\ s.includes_all => s.included_chars = {}
    /\ ~s.includes_all => s.excluded_chars = {}

Target == sets[last.target]

\* C1: after A.add_set(B), in every combination of direct and complement
\* form, a code point is a member of A iff it was a member of A before the
\* call or is a member of B.
C1_AddSetIsUnion ==
    last.op = "add_set" =>
        \A p \in CodePoints :
            member(Target, p) <=> (member(last.self, p) \/ member(last.other, p))

\* A direct set united with a complement set, where one of the points the
\* argument excludes was included by the object and another was not.
C1_Witness ==
    /\ last.op = "add_set"
    /\ ~last.self.includes_all
    /\ last.other.includes_all
    /\ last.self.included_chars \cap last.other.excluded_chars # {}
    /\ last.other.excluded_chars \ last.self.included_chars # {}
    /\ last.self.included_chars \ last.other.excluded_chars # {}

\* C2: R = A.remove_set(B) leaves A with the points of the original A that
\* are not in B and returns the points that were in both; R and the new A
\* are disjoint and together make up the original A.
C2_RemoveSetIsDifference ==
    last.op = "remove_set" =>
        \A p \in CodePoints :
            /\ member(Target, p) <=> (member(last.self, p) /\ ~member(last.other, p))
            /\ member(last.ret, p) <=> (member(last.self, p) /\ member(last.other, p))
            /\ ~(member(Target, p) /\ member(last.ret, p))
            /\ member(last.self, p) <=> (member(Target, p) \/ member(last.ret, p))

\* A complement set from which a direct set is removed, where some of the
\* argument's points were already excluded and some were not.
C2_Witness ==
    /\ last.op = "remove_set"
    /\ last.self.includes_all
    /\ ~last.other.includes_all
    /\ last.other.included_chars \cap last.self.excluded_chars # {}
    /\ last.other.included_chars \ last.self.excluded_chars # {}
    /\ last.ret.included_chars # {}

\* C4: A.intersects(B) is true iff some code point is a member of both, and
\* equals the negation of is_empty() of remove_set(B) on a copy of A.
C4_IntersectsIsOverlap ==
    last.op = "intersects" =>
        /\ last.flag <=> (\E p \in CodePoints :
                              member(last.self, p) /\ member(last.other, p))
        /\ last.flag <=> ~is_empty(remove_set(last.self, last.other).result)
        /\ Target = last.self

\* Two complement sets with different exclusions are found to intersect.
C4_Witness ==
    /\ last.op = "intersects"
    /\ last.self.includes_all
    /\ last.other.includes_all
    /\ last.self.excluded_chars # last.other.excluded_chars
    /\ last.flag

InRange(p) == last.min <= p /\ p <= last.max

\* C5: include(min, max) adds the range, exclude(min, max) removes it, in
\* either form; include_all() leaves every code point except 0 a member and
\* discards the earlier contents.
C5_MutatorsAreSetOperations ==
    /\ last.op = "include" =>
           \A p \in CodePoints :
               member(Target, p) <=> (member(last.self, p) \/ InRange(p))
    /\ last.op = "exclude" =>
           \A p \in CodePoints :
               member(Target, p) <=> (member(last.self, p) /\ ~InRange(p))
    /\ last.op = "include_all" =>
           /\ \A p \in CodePoints : member(Target, p) <=> p # 0
           /\ Target = [includes_all |-> TRUE, included_chars |-> {},
                        excluded_chars |-> {0}]

\* exclude of a range of several points from a complement set that already
\* excluded one of them and not another.
C5_Witness ==
    /\ last.op = "exclude"
    /\ last.self.includes_all
    /\ last.min < last.max
    /\ \E p \in last.min .. last.max : p \in last.self.excluded_chars
    /\ \E p \in last.min .. last.max : p \notin last.self.excluded_chars

\* C6: remove_set with an argument equal in value to the object leaves the
\* object empty and returns a set with the members of the original object.
C6_RemoveSelf ==
    (last.op = "remove_set" /\ operator_eq(last.other, last.self)) =>
        /\ is_empty(Target)
        /\ SameMembers(last.ret, last.self)

\* A complement set with exclusions, removed from itself.
C6_Witness ==
    /\ last.op = "remove_set"
    /\ operator_eq(last.other, last.self)
    /\ last.self.includes_all
    /\ Cardinality(last.self.excluded_chars) >= 2

\* C7: for a set built with include and exclude only, including every range
\* of included_ranges() into a new set gives a set with the same members.
C7_RoundTrip ==
    last.op = "round_trip" => SameMembers(last.ret, Target)

\* The round trip of a set with more than one range.
C7_Witness ==
    /\ last.op = "round_trip"
    /\ Len(included_ranges(Target)) >= 2
    /\ Cardinality(Target.included_chars) >= 2

\* C10: in every reachable state, and for every value remove_set returns,
\* the field includes_all does not select is empty; so two sets in the same
\* form are == exactly when they have the same members.
C10_Representation ==
    /\ \A t \in Ids : RepOK(sets[t])
    /\ last.op = "remove_set" => RepOK(last.ret)
    /\ \A t \in Ids, o \in Ids :
           sets[t].includes_all = sets[o].includes_all =>
               (operator_eq(sets[t], sets[o]) <=> SameMembers(sets[t], sets[o]))

\* A direct set with points has just become a complement set by add_set.
C10_Witness ==
    /\ last.op = "add_set"
    /\ ~last.self.includes_all
    /\ last.self.included_chars # {}
    /\ Target.includes_all
    /\ Target.excluded_chars # {}

\* The ranges of rs are well formed, ascending and non-overlapping, and
\* their union is cs.
RangesCover(rs, cs) ==
    /\ \A i \in 1 .. Len(rs) : rs[i].min <= rs[i].max
    /\ \A i \in 1 .. Len(rs) - 1 : rs[i].max < rs[i + 1].min
    /\ UNION {rs[i].min .. rs[i].max : i \in 1 .. Len(rs)} = cs

Adjacent(rs, i) == rs[i].max + 1 = rs[i + 1].min

Single(r) == r.min = r.max

ExamplePoints == {1, 2, 3, 7, 8, 10}

\* C3 as stated: the ranges are the minimal sequence (ascending,
\* non-overlapping, non-adjacent, union equal to the point set), and
\* {1,2,3,7,8,10} yields [[1,3],[7,8],[10,10]].
C3_MinimalRanges ==
    ranges.done =>
        /\ RangesCover(ranges.out, chars)
        /\ \A i \in 1 .. Len(ranges.out) - 1 : ~Adjacent(ranges.out, i)
        /\ chars = ExamplePoints =>
               ranges.out = <<[min |-> 1, max |-> 3], [min |-> 7, max |-> 8],
                              [min |-> 10, max |-> 10]>>

\* C3 as amended: the ranges are ascending and non-overlapping with union
\* equal to the point set; no range has exactly two points; two ranges are
\* adjacent only when both are single points that make up a whole run of
\* exactly two consecutive points; and {1,2,3,7,8,10} yields
\* [[1,3],[7,7],[8,8],[10,10]].
C3_RangesSplitPairs ==
    ranges.done =>
        /\ RangesCover(ranges.out, chars)
        /\ \A i \in 1 .. Len(ranges.out) : ranges.out[i].max # ranges.out[i].min + 1
        /\ \A i \in 1 .. Len(ranges.out) - 1 :
               Adjacent(ranges.out, i) =>
                   /\ Single(ranges.out[i])
                   /\ Single(ranges.out[i + 1])
                   /\ i > 1 => ~Adjacent(ranges.out, i - 1)
                   /\ i + 1 < Len(ranges.out) => ~Adjacent(ranges.out, i + 1)
        /\ chars = ExamplePoints =>
               ranges.out = <<[min |-> 1, max |-> 3], [min |-> 7, max |-> 7],
                              [min |-> 8, max |-> 8], [min |-> 10, max |-> 10]>>

\* consolidate_ranges has run on the example point set.
C3_Witness ==
    /\ ranges.done
    /\ chars = ExamplePoints
    /\ Len(ranges.out) = 4

Triple == 1 .. 3

\* C8: operator< is a strict total order consistent with operator==:
\* irreflexive, transitive, asymmetric, exactly one of A < B, B < A, A == B
\* holds, and a direct set is below every complement set.
C8_StrictTotalOrder ==
    cmp.done =>
        /\ \A i \in Triple : ~cmp.lt[i][i]
        /\ \A i \in Triple, j \in Triple, k \in Triple :
               (cmp.lt[i][j] /\ cmp.lt[j][k]) => cmp.lt[i][k]
        /\ \A i \in Triple, j \in Triple : cmp.lt[i][j] => ~cmp.lt[j][i]
        /\ \A i \in Triple, j \in Triple :
               \/ cmp.lt[i][j] /\ ~cmp.lt[j][i] /\ ~cmp.eq[i][j]
               \/ ~cmp.lt[i][j] /\ cmp.lt[j][i] /\ ~cmp.eq[i][j]
               \/ ~cmp.lt[i][j] /\ ~cmp.lt[j][i] /\ cmp.eq[i][j]
        /\ \A i \in Triple, j \in Triple :
               (~ord[i].includes_all /\ ord[j].includes_all) => cmp.lt[i][j]

\* Three complement sets in a chain, ordered by their exclusions alone.
C8_Witness ==
    /\ cmp.done
    /\ \A i \in Triple : ord[i].includes_all
    /\ cmp.lt[1][2]
    /\ cmp.lt[2][3]
    /\ Cardinality(ord[1].excluded_chars) >= 2
    /\ ord[2].excluded_chars # {}

\* C9: a running include(min, max) or exclude(min, max) with min <= max has
\* run its loop body at most max - min + 1 times, whatever max is.
C9_LoopBounded ==
    call.pc # "idle" => call.iters <= call.max - call.min + 1

====
